---- MODULE Spec2Model ----
(***************************************************************************)
(* Model of chianft/util/mint.py: the Minter class.                        *)
(*                                                                         *)
(*   Spec        create_spend_bundles: coin selection, the chunk loop over *)
(*               the metadata rows, and the lineage threaded from one      *)
(*               chunk's spend bundle to the next chunk's mint request.    *)
(*                                                                         *)
(*   SpecFee     estimate_fee, called on a pool snapshot with the cost of  *)
(*               one bundle after another.                                 *)
(*                                                                         *)
(*   SpecSubmit  submit_spend_bundles: for each bundle the cost, the fee,  *)
(*               the fee transaction, the push, and the two polling loops, *)
(*               interleaved with the node including or evicting pool      *)
(*               items.                                                    *)
(*                                                                         *)
(* The wallet and the node are RPC services outside the program: what they *)
(* return is a nondeterministic choice from small sets.  The calls the     *)
(* program makes to them are recorded in history variables (select_calls,  *)
(* mint_calls, mint_resps, fee_calls, events, fee_selects, pushes), which   *)
(* the program itself never reads.                                         *)
(***************************************************************************)
EXTENDS Integers, Sequences, FiniteSets, TLC

\* ------------------------------------------------------------------ bounds
\* Largest number of metadata rows of a run.
MaxN == 51
\* Largest number of coins one select_coins call returns.
MaxSelected == 2
\* Largest number of items in the pool.
MaxPoolItems == 2
\* Largest cost and largest fee of one pool item.
MaxItemCost == 2
MaxItemFee == 2
\* Largest cost of a spend bundle, and largest block_max_cost of the node.
MaxBundleCost == 3
\* Largest number of spend bundles handed to submit_spend_bundles.
MaxBundles == 2
\* Largest fee_per_cost a caller passes.
MaxFeePerCost == 1

\* --------------------------------------------------------- program constants
\* chunk = 25
chunk == 25
\* bytes32: a coin id is 32 bytes, so its hex() has 64 digits.
Bytes32Len == 32

\* Python's None.
None == "None"

\* An Optional[...] whose values are numbers or records: Nothing for None,
\* Some(x) for x.
Nothing == <<>>
Some(x) == <<x>>

\* A bundle variable before its first assignment: the aggregate of no bundle.
NoBundle == [fee_coins |-> <<>>, removals |-> <<>>, fee |-> 0, coin_spends |-> <<>>]

\* ------------------------------------------------------------------- coins
\* A coin is (parent_coin_info, puzzle_hash, amount).  Amount 1 is the
\* singleton amount, 2 stands for any larger amount.
PuzzleHashes == {0, 1}
Amounts == {1, 2}

Coin(parent, ph, amount) ==
    [parent_coin_info |-> parent, puzzle_hash |-> ph, amount |-> amount]

\* Coin.name(): the hash of the coin's three fields.  Modelled as an injective
\* encoding of the three fields into the positive integers.
CoinName(c) ==
    1 + (c.amount - 1)
      + Cardinality(Amounts) * (c.puzzle_hash + Cardinality(PuzzleHashes) * c.parent_coin_info)

HexDigits == <<"0", "1", "2", "3", "4", "5", "6", "7",
               "8", "9", "a", "b", "c", "d", "e", "f">>

Pow16[k \in 0..7] == IF k = 0 THEN 1 ELSE 16 * Pow16[k - 1]

\* bytes32.hex(): the big-endian hexadecimal digits of a 32-byte value.
Hex(id) ==
    [k \in 1..(2 * Bytes32Len) |->
        LET e == 2 * Bytes32Len - k
        IN  IF e > 6 THEN "0" ELSE HexDigits[((id \div Pow16[e]) % 16) + 1]]

\* The wallets.  The coins each wallet offers, in the order a selection
\* returns them.
xch_wallet_id == "xch_wallet_id"
did_wallet_id == "did_wallet_id"

WalletCoins(wallet_id) ==
    [k \in 1..MaxSelected |->
        IF wallet_id = xch_wallet_id THEN Coin(k - 1, 0, 2)
                                     ELSE Coin(MaxSelected + k - 1, 1, 1)]

\* wallet_client.select_coins: any number of the wallet's coins, none included.
SelectCoins(wallet_id) ==
    {SubSeq(WalletCoins(wallet_id), 1, k) : k \in 0..MaxSelected}

\* ------------------------------------------------------------ spend bundles
\* A spend bundle, as far as create_spend_bundles reads it: additions() and
\* removals(), each a list of coins.
SeqsUpTo(S, m) == UNION {[1..k -> S] : k \in 0..m}

RECURSIVE FlattenCoins(_)
FlattenCoins(coins) ==
    IF coins = <<>> THEN <<>>
    ELSE <<coins[1].parent_coin_info, coins[1].puzzle_hash, coins[1].amount>>
            \o FlattenCoins(Tail(coins))

\* bytes(sb): the serialized bundle, a length-prefixed stream of fields.
Serialize(sb) ==
    <<Len(sb.additions)>> \o FlattenCoins(sb.additions)
        \o <<Len(sb.removals)>> \o FlattenCoins(sb.removals)

VARIABLES
    pc,                 \* where create_spend_bundles stands
    metadata_list,      \* the rows read_metadata_csv returned
    funding_coin,       \* the coin get_funding_coin returned
    next_coin,          \* the funding coin of the next chunk
    did_coin,           \* the authority coin of the next chunk
    did_lineage_parent, \* the lineage parent of the next chunk
    i,                  \* the loop variable
    spend_bundles,      \* the serialized bundles built so far
    error,              \* the exception that ended the run (type, args), or None
    select_calls,       \* history: the select_coins calls and what they returned
    mint_calls,         \* history: the arguments of the did_mint_nfts calls
    mint_resps,         \* history: the response to each did_mint_nfts call
    mempool,            \* node: the pool items, in the order of get_all_mempool_items
    blockchain_state,   \* node: what get_blockchain_state returns
    fee_calls,          \* history: the last two estimate_fee calls and their outcome
    sub_pc,             \* where submit_spend_bundles stands
    sub_bundles,        \* its argument spend_bundles
    fee_per_cost,       \* its argument fee_per_cost
    sub_i,              \* the loop variable i of enumerate(spend_bundles)
    sb_cost,            \* the cost of the bundle at hand
    fee,                \* its fee
    final_sb,           \* the aggregate of the fee bundle and the bundle at hand
    tx_id,              \* the pool key get_tx_from_mempool returned
    polls,              \* parity of the pool queries that missed the bundle at hand
    sub_error,          \* the exception that ended the run, or None
    chain,              \* node: the names of the bundles included in a block
    events,             \* history: what each RPC call of the run observed
    fee_selects,        \* history: the select_coins calls of create_fee_tx
    pushes              \* history: the push_tx calls

buildVars == <<pc, metadata_list, funding_coin, next_coin, did_coin, did_lineage_parent,
               i, spend_bundles, error, select_calls, mint_calls, mint_resps>>

feeVars == <<mempool, blockchain_state, fee_calls>>

submitVars == <<sub_pc, sub_bundles, fee_per_cost, sub_i, sb_cost, fee, final_sb, tx_id,
                polls, sub_error, chain, events, fee_selects, pushes>>

vars == <<buildVars, feeVars, submitVars>>

\* The variables of a part of the program that a specification leaves out.
IdleBuild ==
    /\ pc = "idle"
    /\ metadata_list = <<>>
    /\ funding_coin = None
    /\ next_coin = None
    /\ did_coin = None
    /\ did_lineage_parent = None
    /\ i = 0
    /\ spend_bundles = <<>>
    /\ error = None
    /\ select_calls = <<>>
    /\ mint_calls = <<>>
    /\ mint_resps = <<>>

IdleFee ==
    /\ mempool = <<>>
    /\ blockchain_state = None
    /\ fee_calls = <<>>

IdleSubmit ==
    /\ sub_pc = "idle"
    /\ sub_bundles = <<>>
    /\ fee_per_cost = Nothing
    /\ sub_i = 0
    /\ sb_cost = 0
    /\ fee = 0
    /\ final_sb = NoBundle
    /\ tx_id = Nothing
    /\ polls = 0
    /\ sub_error = None
    /\ chain = {}
    /\ events = <<>>
    /\ fee_selects = <<>>
    /\ pushes = <<>>

n == Len(metadata_list)

Min(a, b) == IF a < b THEN a ELSE b

\* Slip: the slice runs one row too far, metadata_list[i:i+chunk+1].
SliceOneTooFar(list, from, to) == SubSeq(list, from + 1, Min(to + 1, Len(list)))

\* metadata_list[i:i+chunk]
Slice(list, from, to) == SubSeq(list, from + 1, Min(to, Len(list)))

\* ---------------------------------------------------- create_spend_bundles
Init ==
    /\ pc = "get_funding_coin"
    /\ metadata_list \in {[k \in 1..m |-> k] : m \in 0..MaxN}
    /\ funding_coin = None
    /\ next_coin = None
    /\ did_coin = None
    /\ did_lineage_parent = None
    /\ i = 0
    /\ spend_bundles = <<>>
    /\ error = None
    /\ select_calls = <<>>
    /\ mint_calls = <<>>
    /\ mint_resps = <<>>
    /\ IdleFee
    /\ IdleSubmit

\* raise exc(message % args)
Raise(exc, args) ==
    /\ pc' = "error"
    /\ error' = [type |-> exc, args |-> args]

\* Slip: the length test lets two coins through.
AmbiguousFundingAboveTwo(coins) == Len(coins) > 2

\* if len(coins) > 1
AmbiguousFunding(coins) == Len(coins) > 1

\* funding_coin = await self.get_funding_coin(n)
GetFundingCoin ==
    /\ pc = "get_funding_coin"
    /\ \E coins \in SelectCoins(xch_wallet_id) :
        /\ select_calls' = Append(select_calls,
                [wallet_id |-> xch_wallet_id, amount |-> n, coins |-> coins])
        /\ IF AmbiguousFunding(coins)
           THEN Raise("ValueError", <<>>) /\ UNCHANGED funding_coin
           ELSE IF Len(coins) = 0
           THEN Raise("IndexError", <<>>) /\ UNCHANGED funding_coin
           ELSE /\ funding_coin' = coins[1]
                /\ pc' = "get_did_coin"
                /\ UNCHANGED error
    /\ UNCHANGED <<metadata_list, next_coin, did_coin, did_lineage_parent, i,
                   spend_bundles, mint_calls, mint_resps, feeVars, submitVars>>

\* did_coin = await self.get_did_coin(); did_lineage_parent = None;
\* next_coin = funding_coin; spend_bundles = []
GetDidCoin ==
    /\ pc = "get_did_coin"
    /\ \E coins \in SelectCoins(did_wallet_id) :
        /\ select_calls' = Append(select_calls,
                [wallet_id |-> did_wallet_id, amount |-> 1, coins |-> coins])
        /\ IF Len(coins) = 0
           THEN Raise("IndexError", <<>>) /\ UNCHANGED <<did_coin, next_coin>>
           ELSE /\ did_coin' = coins[1]
                /\ next_coin' = funding_coin
                /\ pc' = "loop"
                /\ UNCHANGED error
    /\ did_lineage_parent' = None
    /\ spend_bundles' = <<>>
    /\ UNCHANGED <<metadata_list, funding_coin, i, mint_calls, mint_resps, feeVars, submitVars>>

\* Slip: the edition numbers count from 0 like the offsets.
StartingNumZeroBased(from) == from

\* starting_num=i + 1
StartingNum(from) == from + 1

\* The keyword arguments of wallet_client.did_mint_nfts for the chunk at i.
MintRequest ==
    [ metadata_list      |-> Slice(metadata_list, i, i + chunk),
      starting_num       |-> StartingNum(i),
      max_num            |-> n,
      xch_coins          |-> next_coin,
      xch_change_ph      |-> next_coin.puzzle_hash,
      did_coin           |-> did_coin,
      did_lineage_parent |-> did_lineage_parent ]

\* What the wallet may answer: a failure, or a bundle that spends the funding
\* coin, with or without the authority coin, and creates at most two coins (a
\* well-formed answer creates the change coin and the authority successor),
\* each a child of one of the two coins of the request.
BundleCoins == {Coin(p, ph, a) : p \in {CoinName(next_coin), CoinName(did_coin)},
                                 ph \in PuzzleHashes, a \in Amounts}

AdditionLists == SeqsUpTo(BundleCoins, 2)

RemovalLists == {<<next_coin>>, <<next_coin, did_coin>>}

MintResponses ==
    {[success |-> FALSE, spend_bundle |-> None]}
        \cup {[success |-> TRUE, spend_bundle |-> [additions |-> a, removals |-> r]] :
                a \in AdditionLists, r \in RemovalLists}

\* Slip: the change coin is looked up by its parent, the coin just spent,
\* instead of by the original funding coin's puzzle hash.
ChangeCoinsByParent(sb) ==
    LET Test(c) == c.parent_coin_info = CoinName(next_coin)
    IN  SelectSeq(sb.additions, Test)

\* [c for c in sb.additions() if c.puzzle_hash == funding_coin.puzzle_hash]
ChangeCoins(sb) ==
    LET Test(c) == c.puzzle_hash = funding_coin.puzzle_hash
    IN  SelectSeq(sb.additions, Test)

\* Slip: the removal is looked up under the funding coin's name.
SpentCoinsOfFunding(sb) ==
    LET Test(c) == CoinName(c) = CoinName(next_coin)
    IN  SelectSeq(sb.removals, Test)

\* [c for c in sb.removals() if c.name() == did_coin.name()]
SpentDidCoins(sb) ==
    LET Test(c) == CoinName(c) = CoinName(did_coin)
    IN  SelectSeq(sb.removals, Test)

\* Slip: the amount test is left out.
DidSuccessorsAnyAmount(sb) ==
    LET Test(c) == c.parent_coin_info = CoinName(did_coin)
    IN  SelectSeq(sb.additions, Test)

\* [c for c in sb.additions() if (c.parent_coin_info == did_coin.name()) and (c.amount == 1)]
DidSuccessors(sb) ==
    LET Test(c) == c.parent_coin_info = CoinName(did_coin) /\ c.amount = 1
    IN  SelectSeq(sb.additions, Test)

\* Slip: the message names the rows of the chunk after the one that failed.
ChunkRowsOfNext(from) == <<from + chunk, from + 2 * chunk>>

\* "... rows: %s to %s" % (i, i + chunk)
ChunkRows(from) == <<from, from + chunk>>

\* One iteration of "for i in range(0, n, chunk)".
MintChunk ==
    /\ pc = "loop"
    /\ i < n
    /\ mint_calls' = Append(mint_calls, MintRequest)
    /\ \E resp \in MintResponses :
        /\ mint_resps' = Append(mint_resps, resp)
        /\ IF ~resp.success
           THEN /\ Raise("ValueError", ChunkRows(i))
                /\ UNCHANGED <<spend_bundles, next_coin, did_lineage_parent, did_coin, i>>
           ELSE LET sb == resp.spend_bundle IN
                /\ spend_bundles' = Append(spend_bundles, Serialize(sb))
                /\ IF ChangeCoins(sb) = <<>>
                   THEN /\ Raise("IndexError", <<>>)
                        /\ UNCHANGED <<next_coin, did_lineage_parent, did_coin, i>>
                   ELSE /\ next_coin' = ChangeCoins(sb)[1]
                        /\ IF SpentDidCoins(sb) = <<>>
                           THEN /\ Raise("IndexError", <<>>)
                                /\ UNCHANGED <<did_lineage_parent, did_coin, i>>
                           ELSE /\ did_lineage_parent' = Hex(SpentDidCoins(sb)[1].parent_coin_info)
                                /\ IF DidSuccessors(sb) = <<>>
                                   THEN /\ Raise("IndexError", <<>>)
                                        /\ UNCHANGED <<did_coin, i>>
                                   ELSE /\ did_coin' = DidSuccessors(sb)[1]
                                        /\ i' = i + chunk
                                        /\ UNCHANGED <<pc, error>>
    /\ UNCHANGED <<metadata_list, funding_coin, select_calls, feeVars, submitVars>>

\* return spend_bundles
Return ==
    /\ pc = "loop"
    /\ i >= n
    /\ pc' = "done"
    /\ UNCHANGED <<metadata_list, funding_coin, next_coin, did_coin, did_lineage_parent,
                   i, spend_bundles, error, select_calls, mint_calls, mint_resps, feeVars, submitVars>>

Next == GetFundingCoin \/ GetDidCoin \/ MintChunk \/ Return

Spec == Init /\ [][Next]_vars

\* ------------------------------------------------------------ estimate_fee
\* A pool item, as far as the program reads it.
PoolItem(name, cost, item_fee) ==
    [tx_id |-> name, spend_bundle_name |-> name, cost |-> cost, fee |-> item_fee]

\* key=lambda d: d["fee"]//d["cost"]
FeeRate(tx) == tx.fee \div tx.cost

\* Slip: the items are left in the order of the dictionary.
InsertAtEnd(sorted, tx) == sorted \o <<tx>>

\* One step of the stable sort: tx goes behind every item whose key is not larger.
InsertByRate(sorted, tx) ==
    LET Keep(t) == FeeRate(t) <= FeeRate(tx)
        Rest(t) == FeeRate(t) > FeeRate(tx)
    IN  SelectSeq(sorted, Keep) \o <<tx>> \o SelectSeq(sorted, Rest)

RECURSIVE SortedTxs(_)
\* sorted(mempool_dict.values(), key=...): ascending and stable.
SortedTxs(txs) ==
    IF txs = <<>> THEN <<>>
    ELSE InsertByRate(SortedTxs(SubSeq(txs, 1, Len(txs) - 1)), txs[Len(txs)])

RECURSIVE Accumulate(_, _, _, _)
\* The for loop over sorted_txs: <<cost_sum, fee_sum>> when it ends.
Accumulate(txs, cost_sum, fee_sum, spend_bundle_cost) ==
    IF txs = <<>> \/ cost_sum >= spend_bundle_cost
    THEN <<cost_sum, fee_sum>>
    ELSE Accumulate(Tail(txs), cost_sum + txs[1].cost, fee_sum + txs[1].fee,
                    spend_bundle_cost)

\* Slip: "<" for "<=".
FreeCapacityStrict(state, spend_bundle_cost) ==
    state.mempool_cost + spend_bundle_cost < state.block_max_cost

\* mempool_cost + spend_bundle_cost <= block_max_cost
FreeCapacity(state, spend_bundle_cost) ==
    state.mempool_cost + spend_bundle_cost <= state.block_max_cost

\* Slip: "-" for "+".
MinFeePerCostMinusOne(fee_sum, cost_sum) == (fee_sum - 1) \div cost_sum

\* (fee_sum + 1) // cost_sum
MinFeePerCost(fee_sum, cost_sum) == (fee_sum + 1) \div cost_sum

\* estimate_fee(spend_bundle_cost) on the node's answers: the fee returned, or
\* the exception raised, with the sums of the congested branch.
EstimateFee(mempool_dict, state, spend_bundle_cost) ==
    IF FreeCapacity(state, spend_bundle_cost)
    THEN [error |-> None, fee |-> 1, congested |-> FALSE, cost_sum |-> 0, fee_sum |-> 0]
    ELSE LET sums == Accumulate(SortedTxs(mempool_dict), 0, 0, spend_bundle_cost)
         IN  IF sums[1] = 0
             THEN [error |-> "ZeroDivisionError", fee |-> None, congested |-> TRUE,
                   cost_sum |-> sums[1], fee_sum |-> sums[2]]
             ELSE [error |-> None,
                   fee |-> spend_bundle_cost * MinFeePerCost(sums[2], sums[1]),
                   congested |-> TRUE, cost_sum |-> sums[1], fee_sum |-> sums[2]]

\* The name of a bundle is a list of coin names (see SpendBundleName); <<0>>
\* names a bundle of somebody else.
PoolItems == {PoolItem(<<0>>, c, f) : c \in 1..MaxItemCost, f \in 0..MaxItemFee}

\* A pool snapshot: the items, and the two costs of the blockchain state, which
\* the node reports apart from the items.
InitFee ==
    /\ IdleBuild
    /\ IdleSubmit
    /\ mempool \in SeqsUpTo(PoolItems, MaxPoolItems)
    /\ blockchain_state \in [block_max_cost : 1..MaxBundleCost,
                             mempool_cost : 0..MaxBundleCost]
    /\ fee_calls = <<>>

\* fee = await self.estimate_fee(sb_cost), for any cost.
EstimateFeeCall ==
    \E spend_bundle_cost \in 1..MaxBundleCost :
        LET call == [spend_bundle_cost |-> spend_bundle_cost,
                     result |-> EstimateFee(mempool, blockchain_state, spend_bundle_cost)]
        IN  /\ fee_calls' = IF fee_calls = <<>> THEN <<call>>
                            ELSE <<fee_calls[Len(fee_calls)], call>>
            /\ UNCHANGED <<buildVars, mempool, blockchain_state, submitVars>>

NextFee == EstimateFeeCall

SpecFee == InitFee /\ [][NextFee]_vars

\* ----------------------------------------------------- submit_spend_bundles
\* The bundles handed in.  Bundle k spends a funding coin of its own, of amount
\* 1 or more, and an authority coin.
SubmitRemovalLists(k) == {<<Coin(k, 0, a), Coin(k, 1, 1)>> : a \in Amounts}

SubmitBundleLists ==
    UNION {{bs \in [1..m -> UNION {SubmitRemovalLists(k) : k \in 1..m}] :
                \A k \in 1..m : bs[k] \in SubmitRemovalLists(k)} : m \in 0..MaxBundles}

\* A coin of the wallet that no bundle spends.
SpareCoin == Coin(0, 0, 2)

\* wallet_client.select_coins(amount=fee, exclude=xch_coins) for bundle sb: the
\* spare coin, or (the wallet not honouring exclude) the funding coin that sb
\* spends.
FeeSelections(sb) == {<<SpareCoin>>, <<sb[1]>>}

\* spend.puzzle_reveal.to_program().run_with_cost(MAX_COST, ...): the cost of
\* one spend, a fixed positive number for each spend.
SpendCost(coin) == coin.amount

RECURSIVE SumSpendCost(_)
\* for spend in sb.coin_spends: ... sb_cost += cost
SumSpendCost(coins) ==
    IF coins = <<>> THEN 0 ELSE SpendCost(coins[1]) + SumSpendCost(Tail(coins))

RECURSIVE CoinNames(_)
CoinNames(coins) ==
    IF coins = <<>> THEN <<>> ELSE <<CoinName(coins[1])>> \o CoinNames(Tail(coins))

\* SpendBundle.name(): the hash of the bundle.  Modelled as the names of the
\* coins it spends, in order.
SpendBundleName(coin_spends) == CoinNames(coin_spends)

\* [coin.to_json_dict() for coin in spent_coins if coin.amount > 1]
XchCoins(spent_coins) ==
    LET Test(c) == c.amount > 1
    IN  SelectSeq(spent_coins, Test)

\* any(item in xch_coins for item in fee_coins)
FeeCoinConflict(fee_coins, xch_coins) ==
    \E a \in 1..Len(fee_coins) : \E b \in 1..Len(xch_coins) : fee_coins[a] = xch_coins[b]

RECURSIVE SumCost(_)
\* The total cost of the pool items.
SumCost(pool) ==
    IF pool = <<>> THEN 0 ELSE pool[1].cost + SumCost(Tail(pool))

\* get_blockchain_state() of a node whose pool is pool.
BlockchainState(pool) ==
    [block_max_cost |-> MaxBundleCost, mempool_cost |-> SumCost(pool)]

\* The pool without its item at position p.
WithoutItem(pool, p) == SubSeq(pool, 1, p - 1) \o SubSeq(pool, p + 1, Len(pool))

\* get_tx_from_mempool(sb_name): <<in_mempool, tx_id>>
GetTxFromMempool(pool, sb_name) ==
    LET Test(item) == item.spend_bundle_name = sb_name
        hits == SelectSeq(pool, Test)
    IN  IF hits = <<>> THEN <<FALSE, Nothing>> ELSE <<TRUE, hits[1].tx_id>>

\* node_client.get_mempool_item_by_tx_id(tx_id): the item, or None
GetMempoolItemByTxId(pool, id) ==
    LET Test(item) == item.tx_id = id
        hits == SelectSeq(pool, Test)
    IN  IF hits = <<>> THEN Nothing ELSE Some(hits[1])

\* Slip: the test of wait_tx_confirmed is turned round, "if item is not None".
ReturnsWhenItemPresent(pool, id) == GetMempoolItemByTxId(pool, id) # Nothing

\* wait_tx_confirmed: "if item is None: return True"
WaitReturns(pool, id) == GetMempoolItemByTxId(pool, id) = Nothing

\* Slip: the response of push_tx is not looked at.
PushAcceptedUnchecked(resp) == TRUE

\* assert resp["success"]
PushAccepted(resp) == resp.success

\* What an RPC call of the run observed while handling bundle k.
Obs(op, k, result) == [op |-> op, i |-> k, result |-> result]

\* The history with e added; a poll that observes the same again adds nothing.
Logged(e) ==
    IF events # <<>> /\ events[Len(events)] = e THEN events ELSE Append(events, e)

InitSubmit ==
    /\ IdleBuild
    /\ fee_calls = <<>>
    /\ mempool = <<PoolItem(<<0>>, MaxItemCost, MaxItemFee)>>
    /\ blockchain_state = BlockchainState(mempool)
    /\ sub_pc = "for"
    /\ sub_bundles \in SubmitBundleLists
    /\ fee_per_cost \in {Nothing} \cup {Some(f) : f \in 0..MaxFeePerCost}
    /\ sub_i = 0
    /\ sb_cost = 0
    /\ fee = 0
    /\ final_sb = NoBundle
    /\ tx_id = Nothing
    /\ polls = 0
    /\ sub_error = None
    /\ chain = {}
    /\ events = <<>>
    /\ fee_selects = <<>>
    /\ pushes = <<>>

\* The bundle at hand.
sb == sub_bundles[sub_i + 1]

SubRaise(exc) ==
    /\ sub_pc' = "error"
    /\ sub_error' = exc

\* for i, sb in enumerate(spend_bundles): sb_cost = the sum of the spends' costs
ComputeCost ==
    /\ sub_pc = "for"
    /\ sub_i < Len(sub_bundles)
    /\ sb_cost' = SumSpendCost(sb)
    /\ sub_pc' = "fee"
    /\ UNCHANGED <<buildVars, feeVars, sub_bundles, fee_per_cost, sub_i, fee, final_sb,
                   tx_id, polls, sub_error, chain, events, fee_selects, pushes>>

\* The loop is over.
SubmitReturn ==
    /\ sub_pc = "for"
    /\ sub_i >= Len(sub_bundles)
    /\ sub_pc' = "done"
    /\ UNCHANGED <<buildVars, feeVars, sub_bundles, fee_per_cost, sub_i, sb_cost, fee,
                   final_sb, tx_id, polls, sub_error, chain, events, fee_selects, pushes>>

\* Slip: "if not fee_per_cost", which takes a supplied 0 for no value.
FeeIsEstimatedWhenFalsy(fpc) == fpc = Nothing \/ fpc[1] = 0

\* if fee_per_cost is None
FeeIsEstimated(fpc) == fpc = Nothing

\* if fee_per_cost is None: fee = await self.estimate_fee(sb_cost)
\* else: fee = sb_cost * fee_per_cost
ComputeFee ==
    /\ sub_pc = "fee"
    /\ IF FeeIsEstimated(fee_per_cost)
       THEN LET result == EstimateFee(mempool, blockchain_state, sb_cost) IN
            /\ events' = Logged(Obs("estimate_fee", sub_i,
                                    IF result.error = None THEN "returned" ELSE result.error))
            /\ IF result.error = None
               THEN fee' = result.fee /\ sub_pc' = "create_fee_tx" /\ UNCHANGED sub_error
               ELSE SubRaise(result.error) /\ UNCHANGED fee
       ELSE /\ fee' = sb_cost * fee_per_cost[1]
            /\ sub_pc' = "create_fee_tx"
            /\ UNCHANGED <<events, sub_error>>
    /\ UNCHANGED <<buildVars, feeVars, sub_bundles, fee_per_cost, sub_i, sb_cost, final_sb,
                   tx_id, polls, chain, fee_selects, pushes>>

\* fee_tx = await self.create_fee_tx(fee, sb.removals());
\* final_sb = SpendBundle.aggregate([fee_tx.spend_bundle, sb])
CreateFeeTx ==
    /\ sub_pc = "create_fee_tx"
    /\ \E fee_coins \in FeeSelections(sb) :
        LET xch_coins == XchCoins(sb) IN
        /\ fee_selects' = Append(fee_selects,
                [i |-> sub_i, amount |-> fee, exclude |-> xch_coins, coins |-> fee_coins])
        /\ IF FeeCoinConflict(fee_coins, xch_coins)
           THEN /\ SubRaise("ValueError")
                /\ events' = Logged(Obs("create_fee_tx", sub_i, "ValueError"))
                /\ UNCHANGED final_sb
           ELSE /\ final_sb' = [fee_coins |-> fee_coins, removals |-> sb, fee |-> fee,
                                coin_spends |-> fee_coins \o sb]
                /\ events' = Logged(Obs("create_fee_tx", sub_i, "returned"))
                /\ sub_pc' = "push_tx"
                /\ UNCHANGED sub_error
    /\ UNCHANGED <<buildVars, feeVars, sub_bundles, fee_per_cost, sub_i, sb_cost, fee,
                   tx_id, polls, chain, pushes>>

\* resp = await self.node_client.push_tx(final_tx.spend_bundle); assert resp["success"]
PushTx ==
    /\ sub_pc = "push_tx"
    /\ \E resp \in [success : BOOLEAN] :
        /\ pushes' = Append(pushes, [i |-> sub_i, spend_bundle |-> final_sb,
                                     success |-> resp.success])
        /\ events' = Logged(Obs("push_tx", sub_i,
                                IF resp.success THEN "success" ELSE "rejected"))
        /\ mempool' = IF resp.success
                      THEN Append(mempool, PoolItem(SpendBundleName(final_sb.coin_spends),
                                                    SumSpendCost(final_sb.coin_spends), fee))
                      ELSE mempool
        /\ blockchain_state' = BlockchainState(mempool')
        /\ IF PushAccepted(resp)
           THEN sub_pc' = "get_tx_from_mempool" /\ UNCHANGED sub_error
           ELSE SubRaise("AssertionError")
    /\ UNCHANGED <<buildVars, fee_calls, sub_bundles, fee_per_cost, sub_i, sb_cost, fee,
                   final_sb, tx_id, polls, chain, fee_selects>>

\* while True: in_mempool, tx_id = await self.get_tx_from_mempool(final_sb.name())
PollMempool ==
    /\ sub_pc = "get_tx_from_mempool"
    /\ LET name == SpendBundleName(final_sb.coin_spends)
           found == GetTxFromMempool(mempool, name)
       IN  /\ events' = Logged(Obs("get_tx_from_mempool", sub_i,
                    IF \E p \in 1..Len(mempool) : mempool[p].spend_bundle_name = name
                    THEN "found" ELSE "missing"))
           /\ tx_id' = found[2]
           /\ polls' = IF found[1] THEN 0 ELSE (polls + 1) % 2
           /\ sub_pc' = IF found[1] THEN "wait_tx_confirmed" ELSE sub_pc
    /\ UNCHANGED <<buildVars, feeVars, sub_bundles, fee_per_cost, sub_i, sb_cost, fee,
                   final_sb, sub_error, chain, fee_selects, pushes>>

\* await self.wait_tx_confirmed(tx_id); await asyncio.sleep(2)
WaitTxConfirmed ==
    /\ sub_pc = "wait_tx_confirmed"
    /\ events' = Logged(Obs("wait_tx_confirmed", sub_i,
            IF \E p \in 1..Len(mempool) : mempool[p].tx_id = tx_id
            THEN "present" ELSE "absent"))
    /\ IF WaitReturns(mempool, tx_id)
       THEN sub_pc' = "for" /\ sub_i' = sub_i + 1
       ELSE UNCHANGED <<sub_pc, sub_i>>
    /\ UNCHANGED <<buildVars, feeVars, sub_bundles, fee_per_cost, sb_cost, fee, final_sb,
                   tx_id, polls, sub_error, chain, fee_selects, pushes>>

\* The node includes a pool item in a block.
NodeInclude ==
    /\ \E p \in 1..Len(mempool) :
        /\ mempool' = WithoutItem(mempool, p)
        /\ chain' = chain \cup {mempool[p].spend_bundle_name}
    /\ blockchain_state' = BlockchainState(mempool')
    /\ UNCHANGED <<buildVars, fee_calls, sub_pc, sub_bundles, fee_per_cost, sub_i, sb_cost,
                   fee, final_sb, tx_id, polls, sub_error, events, fee_selects, pushes>>

\* The node drops a pool item (expired or replaced) without including it.
NodeEvict ==
    /\ \E p \in 1..Len(mempool) : mempool' = WithoutItem(mempool, p)
    /\ blockchain_state' = BlockchainState(mempool')
    /\ UNCHANGED <<buildVars, fee_calls, sub_pc, sub_bundles, fee_per_cost, sub_i, sb_cost,
                   fee, final_sb, tx_id, polls, sub_error, chain, events, fee_selects, pushes>>

NextSubmit ==
    \/ ComputeCost
    \/ ComputeFee
    \/ CreateFeeTx
    \/ PushTx
    \/ PollMempool
    \/ WaitTxConfirmed
    \/ SubmitReturn
    \/ NodeInclude
    \/ NodeEvict

SpecSubmit == InitSubmit /\ [][NextSubmit]_vars

\* The steps of submit_spend_bundles: one control flow, every await returns.
Program ==
    \/ ComputeCost
    \/ ComputeFee
    \/ CreateFeeTx
    \/ PushTx
    \/ PollMempool
    \/ WaitTxConfirmed
    \/ SubmitReturn

\* The node takes an item out of its pool, by a block or by dropping it.
NodeRemoves == NodeInclude \/ NodeEvict

\* What every step of the program changes: its position, or what it observed.
progVars == <<sub_pc, sub_i, polls, events>>

\* The run under a scheduler that keeps the program going and a node that
\* in the end removes every item of its pool.
SpecSubmitLive == SpecSubmit /\ WF_progVars(Program) /\ WF_mempool(NodeRemoves)

\* ------------------------------------------------------------------ claims
Range(seq) == {seq[k] : k \in 1..Len(seq)}

RECURSIVE ConcatSlices(_, _)
\* The rows of the first k mint requests, joined in request order.
ConcatSlices(calls, k) ==
    IF k = 0 THEN <<>> ELSE ConcatSlices(calls, k - 1) \o calls[k].metadata_list

\* ceil(a / b)
CeilDiv(a, b) == (a + b - 1) \div b

\* The bundle the wallet returned for the k-th mint request.
BundleOf(k) == mint_resps[k].spend_bundle

\* C1: the mint requests are issued chunk by chunk in ascending order: each
\* slice holds at most 25 rows, only the slice of the last chunk ceil(N/25) may
\* hold fewer, and joined in request order the slices are a prefix of the row
\* list; a run that returns has issued exactly ceil(N/25) requests, whose slices
\* joined are the whole row list, and returns one serialized bundle per chunk,
\* the k-th being the bundle answered to the k-th request.
C1_ChunksPartitionRecords ==
    /\ Len(mint_calls) <= CeilDiv(n, chunk)
    /\ \A k \in 1..Len(mint_calls) :
        /\ Len(mint_calls[k].metadata_list) <= chunk
        /\ k < CeilDiv(n, chunk) => Len(mint_calls[k].metadata_list) = chunk
        /\ Len(mint_calls[k].metadata_list) >= 1
    /\ ConcatSlices(mint_calls, Len(mint_calls))
            = SubSeq(metadata_list, 1, Len(ConcatSlices(mint_calls, Len(mint_calls))))
    /\ pc = "done" =>
        /\ Len(mint_calls) = CeilDiv(n, chunk)
        /\ ConcatSlices(mint_calls, Len(mint_calls)) = metadata_list
        /\ Len(spend_bundles) = CeilDiv(n, chunk)
        /\ \A k \in 1..Len(spend_bundles) :
            /\ mint_resps[k].success
            /\ spend_bundles[k] = Serialize(BundleOf(k))

\* A run of three chunks (25, 25 and 1 rows) has returned its three bundles.
C1_Witness ==
    /\ pc = "done"
    /\ n = 2 * chunk + 1
    /\ Len(spend_bundles) = 3
    /\ Len(mint_calls[3].metadata_list) = 1

\* C2: the lineage parent passed with the first chunk is None; the one passed
\* with a later chunk is the (hex) parent id of the authority coin passed with
\* the chunk before, and that coin is among the removals of the bundle answered
\* to the chunk before.
C2_LineageParent ==
    \A k \in 1..Len(mint_calls) :
        IF k = 1
        THEN mint_calls[k].did_lineage_parent = None
        ELSE /\ mint_calls[k - 1].did_coin \in Range(BundleOf(k - 1).removals)
             /\ mint_calls[k].did_lineage_parent
                    = Hex(mint_calls[k - 1].did_coin.parent_coin_info)

\* A third chunk has been requested, its lineage parent being the name of the
\* authority coin selected at the start (the parent of the second chunk's coin).
C2_Witness ==
    /\ Len(mint_calls) = 3
    /\ mint_calls[3].did_lineage_parent = Hex(CoinName(mint_calls[1].did_coin))
    /\ mint_calls[2].did_lineage_parent # mint_calls[3].did_lineage_parent

\* C3: the authority coin passed with the first chunk is the coin selected at
\* the start; the one passed with a later chunk is an addition of the bundle
\* answered to the chunk before, has amount 1, and its parent id is the name of
\* the authority coin passed with the chunk before.
C3_SingletonChain ==
    \A k \in 1..Len(mint_calls) :
        IF k = 1
        THEN mint_calls[k].did_coin = select_calls[2].coins[1]
        ELSE /\ mint_calls[k].did_coin \in Range(BundleOf(k - 1).additions)
             /\ mint_calls[k].did_coin.amount = 1
             /\ mint_calls[k].did_coin.parent_coin_info = CoinName(mint_calls[k - 1].did_coin)

\* A later chunk has been requested after a bundle that also created a child of
\* the authority coin with an amount other than 1, listed before the successor.
C3_Witness ==
    /\ Len(mint_calls) >= 2
    /\ BundleOf(1).additions[1].parent_coin_info = CoinName(mint_calls[1].did_coin)
    /\ BundleOf(1).additions[1].amount # 1

\* The rows of C4 that hold in every state.
C4_FundingState ==
    \A k \in 1..Len(mint_calls) :
        /\ mint_calls[k].xch_change_ph = funding_coin.puzzle_hash
        /\ IF k = 1
           THEN /\ mint_calls[k].xch_coins = funding_coin
                /\ funding_coin = select_calls[1].coins[1]
           ELSE /\ mint_calls[k].xch_coins \in Range(BundleOf(k - 1).additions)
                /\ mint_calls[k].xch_coins.puzzle_hash = funding_coin.puzzle_hash

\* C4: the funding coin passed with the first chunk is the coin selected at the
\* start; the one passed with a later chunk is an addition of the bundle
\* answered to the chunk before, with the original funding coin's puzzle hash;
\* the change puzzle hash passed with every chunk is the original funding
\* coin's; and once the loop is entered, the funding coin changes only in a
\* step in which a mint request was answered with success.
C4_FundingChain ==
    /\ []C4_FundingState
    /\ [][(pc = "loop" /\ next_coin' # next_coin) =>
            /\ Len(mint_resps') = Len(mint_resps) + 1
            /\ mint_resps'[Len(mint_resps')].success]_vars

\* A later chunk has been requested with a funding coin other than the one
\* selected, after a bundle whose first addition has another puzzle hash.
C4_Witness ==
    /\ Len(mint_calls) >= 2
    /\ mint_calls[2].xch_coins # funding_coin
    /\ BundleOf(1).additions[1].puzzle_hash # funding_coin.puzzle_hash

\* C5: in a run over no rows no select_coins call is made, and the run returns
\* the empty list.
C5_NoSelectionWithoutRecords ==
    n = 0 => /\ select_calls = <<>>
             /\ pc \in {"get_funding_coin", "done"}
             /\ pc = "done" => spend_bundles = <<>>

\* C9: a call of estimate_fee with mempool_cost + cost <= block_max_cost
\* returns the fee 1, whatever the pool items.
C9_FreeCapacityFee ==
    \A k \in 1..Len(fee_calls) :
        blockchain_state.mempool_cost + fee_calls[k].spend_bundle_cost
                <= blockchain_state.block_max_cost
            => /\ fee_calls[k].result.error = None
               /\ fee_calls[k].result.fee = 1

\* A call on the boundary mempool_cost + cost = block_max_cost, with two items
\* in the pool that pay a fee, has returned.
C9_Witness ==
    /\ Len(fee_calls) >= 1
    /\ blockchain_state.mempool_cost + fee_calls[1].spend_bundle_cost
            = blockchain_state.block_max_cost
    /\ Len(mempool) = 2
    /\ \A k \in 1..2 : mempool[k].fee > 0
    /\ fee_calls[1].result.fee = 1

\* Two calls on the snapshot that both took the congested branch and returned.
BothCongested ==
    /\ Len(fee_calls) = 2
    /\ \A k \in 1..2 : fee_calls[k].result.congested /\ fee_calls[k].result.error = None

\* C10 as stated: of two congested calls on one snapshot, the one with the
\* smaller cost returns the smaller or equal fee, and both fees are >= 0.
C10_MonotoneInCost ==
    BothCongested =>
        /\ \A k \in 1..2 : fee_calls[k].result.fee >= 0
        /\ fee_calls[1].spend_bundle_cost <= fee_calls[2].spend_bundle_cost
            => fee_calls[1].result.fee <= fee_calls[2].result.fee

\* C10 amended: both fees are >= 0, and the call with the smaller cost returns
\* the smaller or equal fee when both calls ended the accumulation with the
\* same cost_sum and fee_sum.
C10_MonotoneOnSamePrefix ==
    BothCongested =>
        /\ \A k \in 1..2 : fee_calls[k].result.fee >= 0
        /\ ( /\ fee_calls[1].spend_bundle_cost <= fee_calls[2].spend_bundle_cost
             /\ fee_calls[1].result.cost_sum = fee_calls[2].result.cost_sum
             /\ fee_calls[1].result.fee_sum = fee_calls[2].result.fee_sum )
            => fee_calls[1].result.fee <= fee_calls[2].result.fee

\* Two congested calls with different costs accumulated the same items, and the
\* fee grew with the cost.
C10_Witness ==
    /\ BothCongested
    /\ fee_calls[1].spend_bundle_cost < fee_calls[2].spend_bundle_cost
    /\ fee_calls[1].result.cost_sum = fee_calls[2].result.cost_sum
    /\ fee_calls[1].result.fee_sum = fee_calls[2].result.fee_sum
    /\ fee_calls[1].result.fee < fee_calls[2].result.fee

\* The place of an observation in the order of the run: bundle by bundle, and
\* for one bundle the fee, the fee transaction, the push, the pool poll and the
\* confirmation poll.
Rank(e) ==
    7 * e.i +
        CASE e.op = "estimate_fee" -> 1
          [] e.op = "create_fee_tx" -> 2
          [] e.op = "push_tx" -> 3
          [] e.op = "get_tx_from_mempool" /\ e.result = "missing" -> 4
          [] e.op = "get_tx_from_mempool" /\ e.result = "found" -> 5
          [] e.op = "wait_tx_confirmed" /\ e.result = "present" -> 6
          [] e.op = "wait_tx_confirmed" /\ e.result = "absent" -> 7

\* Observation e was made before position p of the history.
Before(e, p) == \E a \in 1..(p - 1) : events[a] = e

\* C6: the observations of a run are made in the order of the bundle list and,
\* for one bundle, in the order fee transaction, push, pool poll, confirmation
\* poll, none made again after a later one; a bundle is pushed once, and only
\* after the bundle before it was pushed with success, then found in the pool,
\* then found absent from the pool; a bundle is looked up in the pool only
\* after its push succeeded and polled for confirmation only after it was found
\* in the pool; so at most one bundle is pushed and not yet found absent.
C6_SubmissionOrder ==
    /\ \A p, q \in 1..Len(events) : p < q => Rank(events[p]) < Rank(events[q])
    /\ \A a, b \in 1..Len(pushes) : a < b => pushes[a].i < pushes[b].i
    /\ \A p \in 1..Len(events) :
        LET e == events[p] IN
        /\ (e.op = "push_tx" /\ e.i > 0) =>
                \E a, b, c \in 1..(p - 1) :
                    /\ a < b /\ b < c
                    /\ events[a] = Obs("push_tx", e.i - 1, "success")
                    /\ events[b] = Obs("get_tx_from_mempool", e.i - 1, "found")
                    /\ events[c] = Obs("wait_tx_confirmed", e.i - 1, "absent")
        /\ e.op = "push_tx" => Before(Obs("create_fee_tx", e.i, "returned"), p)
        /\ e.op = "get_tx_from_mempool" => Before(Obs("push_tx", e.i, "success"), p)
        /\ e.op = "wait_tx_confirmed" => Before(Obs("get_tx_from_mempool", e.i, "found"), p)
    /\ Cardinality({k \in 0..Len(sub_bundles) :
            /\ \E p \in 1..Len(events) : events[p] = Obs("push_tx", k, "success")
            /\ ~\E p \in 1..Len(events) : events[p] = Obs("wait_tx_confirmed", k, "absent")})
        <= 1

\* A run over two bundles has returned; the first bundle was seen in the pool
\* by the confirmation poll before it was seen absent.
C6_Witness ==
    /\ sub_pc = "done"
    /\ Len(sub_bundles) = 2
    /\ \E p \in 1..Len(events) : events[p] = Obs("wait_tx_confirmed", 0, "present")
    /\ \E p \in 1..Len(events) : events[p] = Obs("wait_tx_confirmed", 1, "absent")

\* C7: a rejected push is the last observation of the run and the last push:
\* the run has ended in an error, the rejected bundle is not pushed again nor
\* polled for, and no later bundle is pushed; every bundle before it was found
\* absent from the pool, and nothing was observed of it since.
C7_RejectedPushIsFatal ==
    /\ \A p \in 1..Len(events) :
        events[p].op = "push_tx" /\ events[p].result = "rejected" =>
            /\ p = Len(events)
            /\ sub_pc = "error"
            /\ sub_error = "AssertionError"
            /\ sub_i = events[p].i
            /\ \A j \in 0..(events[p].i - 1) : Before(Obs("wait_tx_confirmed", j, "absent"), p)
    /\ \A a \in 1..Len(pushes) : ~pushes[a].success => a = Len(pushes)

\* The push of the second bundle was rejected, after the first bundle went
\* through to its confirmation.
C7_Witness ==
    /\ sub_error = "AssertionError"
    /\ sub_i = 1
    /\ Len(pushes) = 2
    /\ ~pushes[2].success

\* The aggregates pushed spend no coin both as a fee coin and as a coin of the
\* batch bundle.
C8_PushedAggregatesDisjoint ==
    \A a \in 1..Len(pushes) :
        Range(pushes[a].spend_bundle.fee_coins) \cap Range(pushes[a].spend_bundle.removals) = {}

\* C8: every select_coins call for a fee excludes every removal of the bundle;
\* when it returns a removal of the bundle all the same, the bundle is not
\* pushed; so no aggregate pushed spends a coin both as a fee coin and as a
\* coin of the batch bundle.
C8_FeeCoinsDisjoint ==
    /\ \A a \in 1..Len(fee_selects) :
        LET removals == Range(sub_bundles[fee_selects[a].i + 1]) IN
        /\ removals \subseteq Range(fee_selects[a].exclude)
        /\ Range(fee_selects[a].coins) \cap removals # {}
            => /\ \A b \in 1..Len(pushes) : pushes[b].i # fee_selects[a].i
               /\ sub_pc = "error"
    /\ C8_PushedAggregatesDisjoint

\* C11: estimate_fee never divides by zero: a call of the congested branch
\* whose accumulated cost_sum is 0 (the pool list is empty while
\* mempool_cost + spend_bundle_cost > block_max_cost) raises nothing and
\* returns the fee of the free-capacity branch, 1.
C11_NoDivisionByZero ==
    \A k \in 1..Len(fee_calls) :
        (fee_calls[k].result.congested /\ fee_calls[k].result.cost_sum = 0)
            => /\ fee_calls[k].result.error = None
               /\ fee_calls[k].result.fee = 1

\* C12: when the caller supplies a fee per cost f, 0 included, the fee asked
\* of create_fee_tx for every bundle, and carried by every aggregate pushed, is
\* the bundle's cost times f, and the run never calls the estimator, the only
\* reader of the pool items and of the blockchain state before the fee
\* transaction.
C12_FeeOverride ==
    fee_per_cost # Nothing =>
        /\ \A p \in 1..Len(events) : events[p].op # "estimate_fee"
        /\ \A a \in 1..Len(fee_selects) :
            fee_selects[a].amount
                = SumSpendCost(sub_bundles[fee_selects[a].i + 1]) * fee_per_cost[1]
        /\ \A b \in 1..Len(pushes) :
            pushes[b].spend_bundle.fee
                = SumSpendCost(sub_bundles[pushes[b].i + 1]) * fee_per_cost[1]

\* A run with the fee per cost 0 supplied has pushed its second bundle, with
\* the fee 0, while the pool has no room left for it.
C12_Witness ==
    /\ fee_per_cost = Some(0)
    /\ Len(pushes) = 2
    /\ pushes[2].success
    /\ pushes[2].spend_bundle.fee = 0
    /\ ~FreeCapacity(blockchain_state, 0)

\* C13: get_funding_coin hands on exactly one coin or fails: the wallet is
\* asked for the funding coin at most once (no retry); when it returns more
\* than one coin the run ends with the ambiguous-funding error (ValueError),
\* when it returns none the run ends too; after either failure nothing else is
\* asked of the wallet, no mint request in particular; a run that goes on holds
\* the one coin returned.
C13_FundingCoinIsOneOrFails ==
    /\ \A a \in 1..Len(select_calls) : select_calls[a].wallet_id = xch_wallet_id => a = 1
    /\ select_calls # <<>> =>
        LET coins == select_calls[1].coins IN
        /\ select_calls[1].wallet_id = xch_wallet_id
        /\ Len(coins) > 1 => pc = "error" /\ error.type = "ValueError"
        /\ Len(coins) # 1 =>
            /\ pc = "error"
            /\ funding_coin = None
            /\ Len(select_calls) = 1
            /\ mint_calls = <<>>
        /\ Len(coins) = 1 => funding_coin = coins[1]

\* The wallet returned two coins for the funding and the run has ended.
C13_Witness ==
    /\ Len(select_calls) = 1
    /\ Len(select_calls[1].coins) = 2
    /\ pc = "error"
    /\ n > chunk

\* C14: get_did_coin asks the authority wallet for the amount 1 and succeeds
\* only when the selection returns exactly one coin: when it returns more than
\* one, or none, the run has ended in an error and has issued no mint request.
C14_DidCoinIsOneOrFails ==
    \A a \in 1..Len(select_calls) :
        select_calls[a].wallet_id = did_wallet_id =>
            /\ select_calls[a].amount = 1
            /\ Len(select_calls[a].coins) # 1 => pc = "error" /\ mint_calls = <<>>

\* The positions of the coins of a list that pass a test.
Matches(coins, Test(_)) == {j \in 1..Len(coins) : Test(coins[j])}

\* C15: after a successful mint response the run goes on only when the bundle
\* holds exactly one addition with the original funding puzzle hash, a removal
\* named like the authority coin of the request, and exactly one addition of
\* amount 1 whose parent is that authority coin; when one of them is missing
\* or not unique the run has ended in an error at this chunk: no later request
\* is issued and no bundle list is returned.
C15_LineageBreakIsFatal ==
    \A k \in 1..Len(mint_resps) :
        mint_resps[k].success =>
            LET did == mint_calls[k].did_coin
                IsChange(c) == c.puzzle_hash = funding_coin.puzzle_hash
                IsSpentDid(c) == CoinName(c) = CoinName(did)
                IsSuccessor(c) == c.parent_coin_info = CoinName(did) /\ c.amount = 1
                additions == BundleOf(k).additions
                removals == BundleOf(k).removals
            IN  \/ /\ Cardinality(Matches(additions, IsChange)) = 1
                   /\ Matches(removals, IsSpentDid) # {}
                   /\ Cardinality(Matches(additions, IsSuccessor)) = 1
                \/ /\ pc = "error"
                   /\ k = Len(mint_calls)

\* C16: when the mint request of chunk k reports a failure, the run has ended
\* with a ValueError that names the rows of that chunk, (k-1)*25 to k*25; it is
\* the last request issued; the funding coin, the authority coin and the
\* lineage parent are those of the request, not updated; the chunk adds no
\* bundle to the list and the list is not returned.
C16_MintFailureIsFatal ==
    \A k \in 1..Len(mint_resps) :
        ~mint_resps[k].success =>
            /\ pc = "error"
            /\ error.type = "ValueError"
            /\ error.args = <<(k - 1) * chunk, k * chunk>>
            /\ k = Len(mint_calls)
            /\ next_coin = mint_calls[k].xch_coins
            /\ did_coin = mint_calls[k].did_coin
            /\ did_lineage_parent = mint_calls[k].did_lineage_parent
            /\ Len(spend_bundles) = k - 1

\* The request of the second chunk of three has reported a failure.
C16_Witness ==
    /\ n > 2 * chunk
    /\ Len(mint_resps) = 2
    /\ mint_resps[1].success
    /\ ~mint_resps[2].success
    /\ pc = "error"

\* The place of item j of the pool in ascending order of floor(fee / cost),
\* items of the same rate in the order of the pool.
PlaceOf(pool, j) ==
    LET rate(k) == pool[k].fee \div pool[k].cost
    IN  1 + Cardinality({k \in 1..Len(pool) :
                            rate(k) < rate(j) \/ (rate(k) = rate(j) /\ k < j)})

RECURSIVE PrefixSums(_, _, _)
\* <<cost, fee>> summed over those of the first j items of the pool whose
\* place is at most m.
PrefixSums(pool, m, j) ==
    IF j = 0 THEN <<0, 0>>
    ELSE LET rest == PrefixSums(pool, m, j - 1)
         IN  IF PlaceOf(pool, j) <= m
             THEN <<rest[1] + pool[j].cost, rest[2] + pool[j].fee>>
             ELSE rest

\* The statement of C17 as first made: every call that returns from the
\* congested branch has accumulated a cost_sum >= spend_bundle_cost and
\* returns spend_bundle_cost * floor((fee_sum + 1) / cost_sum).
C17_PrefixReachesCost ==
    \A k \in 1..Len(fee_calls) :
        (fee_calls[k].result.congested /\ fee_calls[k].result.error = None)
            => /\ fee_calls[k].result.cost_sum >= fee_calls[k].spend_bundle_cost
               /\ fee_calls[k].result.fee
                    = fee_calls[k].spend_bundle_cost
                        * ((fee_calls[k].result.fee_sum + 1) \div fee_calls[k].result.cost_sum)

\* C17: in the congested branch cost_sum and fee_sum are the sums over the
\* first m pool items in ascending order of floor(fee / cost), m the least
\* number of items whose cost reaches spend_bundle_cost, or all the items when
\* their cost stays below it (then cost_sum < spend_bundle_cost on exit); with
\* cost_sum > 0 the call returns spend_bundle_cost * floor((fee_sum + 1) /
\* cost_sum), with cost_sum = 0 it raises ZeroDivisionError.
C17_CongestedFee ==
    \A k \in 1..Len(fee_calls) :
        LET c == fee_calls[k].spend_bundle_cost
            r == fee_calls[k].result
            len == Len(mempool)
        IN  r.congested =>
                \E m \in 0..len :
                    LET sums == PrefixSums(mempool, m, len) IN
                    /\ r.cost_sum = sums[1]
                    /\ r.fee_sum = sums[2]
                    /\ m = len \/ sums[1] >= c
                    /\ m > 0 => PrefixSums(mempool, m - 1, len)[1] < c
                    /\ sums[1] > 0 =>
                        r.error = None /\ r.fee = c * ((sums[2] + 1) \div sums[1])
                    /\ sums[1] = 0 => r.error = "ZeroDivisionError"

\* A pool of two items whose dearer one comes first: one congested call has
\* stopped after the cheaper item, the next has run through both items without
\* reaching its cost.
C17_Witness ==
    /\ Len(mempool) = 2
    /\ mempool[1].fee \div mempool[1].cost > mempool[2].fee \div mempool[2].cost
    /\ Len(fee_calls) = 2
    /\ \A k \in 1..2 : fee_calls[k].result.congested /\ fee_calls[k].result.error = None
    /\ fee_calls[1].result.cost_sum = mempool[2].cost
    /\ fee_calls[1].result.fee_sum = mempool[2].fee
    /\ fee_calls[2].result.cost_sum = mempool[1].cost + mempool[2].cost
    /\ fee_calls[2].result.cost_sum < fee_calls[2].spend_bundle_cost

\* The edition numbers of request k: starting_num up to, not including,
\* starting_num + the number of rows of the request.
Editions(k) ==
    {e \in 1..MaxN : /\ e >= mint_calls[k].starting_num
                     /\ e < mint_calls[k].starting_num + Len(mint_calls[k].metadata_list)}

\* C18: the request of the chunk at offset (k-1)*25 carries starting_num =
\* (k-1)*25 + 1 and max_num = N; row j of the request is the row numbered
\* starting_num + j - 1 of the file; the edition ranges of the requests lie in
\* 1..N and are disjoint, and those of a run that returns cover 1..N.
C18_EditionNumbers ==
    /\ \A k \in 1..Len(mint_calls) :
        /\ mint_calls[k].starting_num = (k - 1) * chunk + 1
        /\ mint_calls[k].max_num = Len(metadata_list)
        /\ \A j \in 1..Len(mint_calls[k].metadata_list) :
            mint_calls[k].metadata_list[j]
                = metadata_list[mint_calls[k].starting_num + j - 1]
        /\ Editions(k) \subseteq 1..Len(metadata_list)
        /\ \A l \in 1..(k - 1) : Editions(k) \cap Editions(l) = {}
    /\ pc = "done" =>
        1..Len(metadata_list) \subseteq UNION {Editions(k) : k \in 1..Len(mint_calls)}

\* A run over 51 rows has returned: its third request starts at edition 51.
C18_Witness ==
    /\ pc = "done"
    /\ Len(metadata_list) > 2 * chunk
    /\ Len(mint_calls) = 3
    /\ mint_calls[3].starting_num = 2 * chunk + 1

\* C20: every bundle the run has treated as confirmed (its wait has returned
\* and the run has moved on to the next bundle, or to its end) has been
\* included in a block; a bundle that left the pool without being included is
\* never treated as confirmed, so no bundle is pushed after a bundle that was
\* only dropped.
C20_ConfirmedMeansIncluded ==
    \A b \in 1..Len(pushes) :
        pushes[b].i < sub_i
            => SpendBundleName(pushes[b].spend_bundle.coin_spends) \in chain

\* C19: a run that no exception ends (every push is accepted), whose calls
\* all return and whose node in the end removes every item of its pool, be it
\* before the first pool query for the item, eventually returns with every
\* bundle observed absent from the pool by its confirmation wait; the pool
\* query loop does not spin forever on a bundle that has left the pool.
C19_EveryBundleConfirmed ==
    <>(\/ sub_pc = "error"
       \/ /\ sub_pc = "done"
          /\ \A k \in 0..(Len(sub_bundles) - 1) :
                \E p \in 1..Len(events) : events[p] = Obs("wait_tx_confirmed", k, "absent"))

====
